---- MODULE Spec2Model ----
(***************************************************************************)
(* Model of offline_currency_converter_ru.py: one interactive session of   *)
(* the currency converter (connectivity probe, cache load, multi-source    *)
(* fetch, cache save, data selection and status, currency listing and the  *)
(* conversion loop), with the exit status computed by the __main__ block.  *)
(*                                                                         *)
(* JSON values are records [kind, fields]: kind is "dict", "list",         *)
(* "scalar" or "none" (Python None); fields is the mapping of a dict.      *)
(* Numbers are rationals <<numerator, denominator>> in lowest terms; a     *)
(* Python float is the rational it stands for, rounded to the nearest      *)
(* binary number with MantissaBits significant bits after every parse,     *)
(* division and multiplication (the program's floats have 53).             *)
(***************************************************************************)
EXTENDS Integers, Sequences, FiniteSets, TLC

\* ----------------------------------------------------------------- bounds
\* Oldest cache timestamp considered, in whole days before the session.
MaxAgeDays == 9
\* Number of conversions after which the model stops offering "yes".
MaxConversions == 2
\* Significant bits of a float in the model.
MantissaBits == 12

\* ------------------------------------------------------ program constants
MAX_AMOUNT == 1000000000
SecondsPerDay == 86400
StaleDays == 7
max_days == 7

\* API_URLS, each URL as the list of its '/'-separated segments
API_URLS ==
  << << "https:", "", "api.exchangerate-api.com", "v4", "latest", "USD" >>,
     << "https:", "", "api.exchangerate-api.com", "v4", "latest", "EUR" >> >>

\* test_urls of check_internet
test_urls ==
  << "https://api.exchangerate-api.com", "https://www.google.com",
     "https://www.cloudflare.com" >>

\* the keys of CURRENCY_NAMES in insertion order (display names left out)
CURRENCY_NAMES ==
  << "USD", "EUR", "RUB", "UAH", "GBP", "JPY", "CNY", "KZT", "BYN", "PLN",
     "CAD", "AUD", "CHF", "CZK", "SEK", "NOK", "MXN", "SGD", "HKD", "NZD",
     "ILS", "KRW" >>

required_currencies == << "USD", "EUR", "RUB" >>

\* ------------------------------------------------------- exact rationals
RECURSIVE Gcd(_, _)
Gcd(a, b) == IF b = 0 THEN a ELSE Gcd(b, a % b)

Abs(x) == IF x < 0 THEN -x ELSE x

\* lowest terms, positive denominator
Norm(n, d) ==
  LET g == Gcd(Abs(n), Abs(d))
      s == IF d < 0 THEN -1 ELSE 1
  IN  << (s * n) \div g, (s * d) \div g >>

Num(q) == q[1]
Den(q) == q[2]
RatOfInt(i) == << i, 1 >>
RatLE(a, b) == Num(a) * Den(b) <= Num(b) * Den(a)
RatLT(a, b) == Num(a) * Den(b) < Num(b) * Den(a)
RatDiv(a, b) == Norm(Num(a) * Den(b), Den(a) * Num(b))
RatMul(a, b) ==
  LET g1 == Gcd(Abs(Num(a)), Den(b))
      g2 == Gcd(Abs(Num(b)), Den(a))
  IN  Norm((Num(a) \div g1) * (Num(b) \div g2),
           (Den(a) \div g2) * (Den(b) \div g1))
Zero == RatOfInt(0)

\* ----------------------------------------------------- float arithmetic
\* x / y scaled by powers of two into [2^(MantissaBits-1), 2^MantissaBits),
\* rounded to the nearest integer, ties to the even one, and scaled back;
\* e is the power of two that was taken out
RECURSIVE FlPos(_, _, _)
FlPos(x, y, e) ==
  IF x \div (2 ^ MantissaBits) >= y THEN FlPos(x, 2 * y, e + 1)
  ELSE IF x \div (2 ^ (MantissaBits - 1)) < y
    THEN IF y % 2 = 0 THEN FlPos(x, y \div 2, e - 1) ELSE FlPos(2 * x, y, e - 1)
  ELSE LET q == x \div y
           r == x % y
           m == IF 2 * r > y THEN q + 1
                ELSE IF 2 * r = y THEN q + (q % 2)
                ELSE q
       IN  IF e >= 0 THEN Norm(m * (2 ^ e), 1) ELSE Norm(m, 2 ^ (0 - e))

\* the float nearest to the rational q
Fl(q) ==
  IF Num(q) = 0 THEN Zero
  ELSE LET r == FlPos(Abs(Num(q)), Den(q), 0)
       IN  IF Num(q) < 0 THEN << 0 - Num(r), Den(r) >> ELSE r

\* ------------------------------------------------------------ JSON values
EmptyDoc == [k \in {} |-> 0]
None == [kind |-> "none", fields |-> EmptyDoc]
JsonDict(f) == [kind |-> "dict", fields |-> f]
JsonList == [kind |-> "list", fields |-> EmptyDoc]
JsonScalar == [kind |-> "scalar", fields |-> EmptyDoc]

\* Python truthiness of the values main() tests (None, a dict)
Truthy(v) == v.kind = "dict" /\ DOMAIN v.fields # {}

\* `field in data` for the JSON kinds: membership in a dict's keys, element
\* test on a list (a list of documents never holds a field name), TypeError
\* on a number, boolean or null
CanContain(v) == v.kind \in {"dict", "list"}
Has(v, field) == v.kind = "dict" /\ field \in DOMAIN v.fields

\* the value of a `rates` field: a dict of code -> rate, or something else
RatesDict(m) == [isdict |-> TRUE, map |-> m]
RatesNotDict == [isdict |-> FALSE, map |-> EmptyDoc]

\* expected_base=None, and the truthiness test `if expected_base and ...`
NoExpectedBase == "None"
BaseGiven(b) == b \notin {NoExpectedBase, ""}

\* ------------------------------------------------- validate_api_response
required_fields == << "rates", "base", "date" >>

MissingFields(data) ==
  { i \in 1..Len(required_fields) : ~ Has(data, required_fields[i]) }

Min(S) == CHOOSE x \in S : \A y \in S : x <= y

\* returns [exc, is_valid, message, data]: exc is the exception raised
\* ("none" when the pair is returned), data the argument after the call
\* (it is passed by reference)
validate_api_response_nodictcheck(data, expected_base) ==
  IF ~ CanContain(data)
    THEN [exc |-> "TypeError", is_valid |-> FALSE, message |-> "raised", data |-> data]
  ELSE IF MissingFields(data) # {}
    THEN [exc |-> "none", is_valid |-> FALSE, data |-> data,
          message |-> "missing:" \o required_fields[Min(MissingFields(data))]]
  ELSE IF BaseGiven(expected_base) /\ data.fields["base"] # expected_base
    THEN [exc |-> "none", is_valid |-> FALSE, message |-> "base_mismatch", data |-> data]
  ELSE [exc |-> "none", is_valid |-> TRUE, message |-> "valid", data |-> data]

validate_api_response(data, expected_base) ==
  IF ~ CanContain(data)
    THEN [exc |-> "TypeError", is_valid |-> FALSE, message |-> "raised", data |-> data]
  ELSE IF MissingFields(data) # {}
    THEN [exc |-> "none", is_valid |-> FALSE, data |-> data,
          message |-> "missing:" \o required_fields[Min(MissingFields(data))]]
  ELSE IF ~ data.fields["rates"].isdict
    THEN [exc |-> "none", is_valid |-> FALSE, message |-> "rates_not_dict", data |-> data]
  ELSE IF BaseGiven(expected_base) /\ data.fields["base"] # expected_base
    THEN [exc |-> "none", is_valid |-> FALSE, message |-> "base_mismatch", data |-> data]
  ELSE [exc |-> "none", is_valid |-> TRUE, message |-> "valid", data |-> data]

\* ----------------------------------------- except clauses of fetch_rates
RequestExceptions == { "Timeout", "ConnectionError", "HTTPError" }
\* exceptions that are no subclass of Exception
BaseExceptionsOnly == { "KeyboardInterrupt", "SystemExit" }

\* the clause that handles `exc`, "propagates" when none does
fetch_rates_except_norest(exc) ==
  IF exc \in RequestExceptions THEN "request_error"
  ELSE IF exc = "JSONDecodeError" THEN "json_error"
  ELSE "propagates"

fetch_rates_except(exc) ==
  IF exc \in RequestExceptions THEN "request_error"
  ELSE IF exc = "JSONDecodeError" THEN "json_error"
  ELSE IF exc \notin BaseExceptionsOnly THEN "unknown_error"
  ELSE "propagates"

\* --------------------------------------------------------- check_internet
\* reach[i]: requests.head(test_urls[i]) returned without RequestException
check_internet(reach) == \E i \in 1..Len(test_urls) : reach[i]

\* ---------------------------------------------------------------- load_db
\* file: [exists, parses, content]; returns the JSON value or None
load_db_skips_validation(file) ==
  IF ~ file.exists THEN None
  ELSE IF ~ file.parses THEN None
  ELSE file.content

load_db(file) ==
  IF ~ file.exists THEN None
  ELSE IF ~ file.parses THEN None
  ELSE LET v == validate_api_response(file.content, NoExpectedBase)
       IN  IF v.exc # "none" THEN None
           ELSE IF ~ v.is_valid THEN None
           ELSE file.content

\* ---------------------------------------------------------- is_data_fresh
\* timedelta.days: whole days, rounded towards minus infinity
DaysBetween(later, earlier) == (later - earlier) \div SecondsPerDay

is_data_fresh_le(d, t) ==
  IF ~ Has(d, "timestamp") THEN FALSE
  ELSE DaysBetween(t, d.fields["timestamp"]) <= max_days

is_data_fresh(d, t) ==
  IF ~ Has(d, "timestamp") THEN FALSE
  ELSE DaysBetween(t, d.fields["timestamp"]) < max_days

\* ------------------------------------------------- display_status_message
\* returns [exc, class, date]: exc is "KeyError" when db_data lacks the
\* 'timestamp' or 'date_fetched' key the message is built from
CacheStatus_ge(db, t, fresh_class, stale_class) ==
  IF ~ Has(db, "timestamp")
    THEN [exc |-> "KeyError", class |-> "none", date |-> 0]
  ELSE IF ~ Has(db, "date_fetched")
    THEN [exc |-> "KeyError", class |-> "none", date |-> 0]
  ELSE LET days_old == DaysBetween(t, db.fields["timestamp"])
       IN  [exc |-> "none",
            class |-> IF days_old >= StaleDays THEN stale_class ELSE fresh_class,
            date |-> db.fields["date_fetched"]]

CacheStatus(db, t, fresh_class, stale_class) ==
  IF ~ Has(db, "timestamp")
    THEN [exc |-> "KeyError", class |-> "none", date |-> 0]
  ELSE IF ~ Has(db, "date_fetched")
    THEN [exc |-> "KeyError", class |-> "none", date |-> 0]
  ELSE LET days_old == DaysBetween(t, db.fields["timestamp"])
       IN  [exc |-> "none",
            class |-> IF days_old > StaleDays THEN stale_class ELSE fresh_class,
            date |-> db.fields["date_fetched"]]

display_status_message(internet, db, fresh, t) ==
  IF internet
    THEN IF Truthy(fresh)
           THEN [exc |-> "none", class |-> "updated",
                 date |-> fresh.fields["date_fetched"]]
         ELSE IF Truthy(db)
           THEN CacheStatus(db, t, "stale_fetch_fresh_cache",
                            "stale_fetch_stale_cache")
         ELSE [exc |-> "none", class |-> "no_data", date |-> 0]
  ELSE IF Truthy(db)
         THEN CacheStatus(db, t, "offline_fresh_cache", "offline_stale_cache")
       ELSE [exc |-> "none", class |-> "no_data_offline", date |-> 0]

\* ------------------------------------------------ get_available_currencies
Listed_nopositive(rates_map, code) == code \in DOMAIN rates_map

Listed_zero_rate_listed(rates_map, code) ==
  code \in DOMAIN rates_map /\ RatLE(Zero, rates_map[code])

Listed(rates_map, code) ==
  code \in DOMAIN rates_map /\ RatLT(Zero, rates_map[code])

get_available_currencies(snapshot) ==
  SelectSeq(CURRENCY_NAMES,
            LAMBDA code : Listed(snapshot.fields["rates"].map, code))

missing_currencies(snapshot) ==
  SelectSeq(required_currencies,
            LAMBDA curr : ~ Listed(snapshot.fields["rates"].map, curr))

\* ----------------------------------------------------------- float(input)
\* a parsed float: an ordinary number, nan, inf or -inf; "error" stands for
\* the ValueError of a text that is no number
Number(n, d) == [kind |-> "num", val |-> Fl(Norm(n, d))]
NaN == [kind |-> "nan", val |-> Zero]
PosInf == [kind |-> "inf", val |-> Zero]
NegInf == [kind |-> "ninf", val |-> Zero]
NotANumber == [kind |-> "error", val |-> Zero]

ParseFloat(text) ==
  CASE text = "nan" -> NaN
    [] text = "inf" -> PosInf
    [] text = "-inf" -> NegInf
    [] text = "-5" -> Number(-5, 1)
    [] text = "0" -> Number(0, 1)
    [] text = "100" -> Number(100, 1)
    [] text = "1073741824" -> Number(MAX_AMOUNT + 73741824, 1)
    [] OTHER -> NotANumber

AmountInputs ==
  { "abc", "nan", "inf", "-inf", "-5", "0", "100", "1073741824" }

\* Python's float comparisons with an integer: every comparison with nan is
\* False
FloatLE(x, i) ==
  CASE x.kind = "num" -> RatLE(x.val, RatOfInt(i))
    [] x.kind = "ninf" -> TRUE
    [] OTHER -> FALSE

FloatGT(x, i) ==
  CASE x.kind = "num" -> RatLT(RatOfInt(i), x.val)
    [] x.kind = "inf" -> TRUE
    [] OTHER -> FALSE

\* the verdict of get_user_amount on one line of input
get_user_amount(text) ==
  LET x == ParseFloat(text)
  IN  IF x.kind = "error" THEN [ok |-> FALSE, print |-> "not_numeric", amount |-> x]
      ELSE IF FloatLE(x, 0) THEN [ok |-> FALSE, print |-> "amount_not_positive", amount |-> x]
      ELSE IF FloatGT(x, MAX_AMOUNT) THEN [ok |-> FALSE, print |-> "amount_too_big", amount |-> x]
      ELSE [ok |-> TRUE, print |-> "none", amount |-> x]

\* ------------------------------------------------- get_user_currency_choice
\* int(input): [isint, val]; the verdict on one line of input
get_user_currency_choice(listing, inp) ==
  IF ~ inp.isint THEN [ok |-> FALSE, print |-> "not_numeric", code |-> ""]
  ELSE IF 1 <= inp.val /\ inp.val <= Len(listing)
    THEN [ok |-> TRUE, print |-> "none", code |-> listing[inp.val]]
  ELSE [ok |-> FALSE, print |-> "bad_choice", code |-> ""]

ChoiceInputs(listing) ==
  { [isint |-> FALSE, val |-> 0] }
    \cup { [isint |-> TRUE, val |-> i] : i \in 0..(Len(listing) + 1) }

\* ------------------------------------------------------ perform_conversion
\* x * q and a / b in floats; nan times a number is nan
FloatMul(x, q) ==
  IF x.kind = "num" THEN [kind |-> "num", val |-> Fl(RatMul(x.val, q))] ELSE x

FloatDiv(a, b) == Fl(RatDiv(a, b))

perform_conversion_inverted(snapshot, src, tgt, amt) ==
  LET rates == snapshot.fields["rates"].map
  IN  IF src \notin DOMAIN rates
        THEN [exc |-> "ValueError", error |-> "UnknownCurrency", value |-> NaN]
      ELSE IF tgt \notin DOMAIN rates
        THEN [exc |-> "ValueError", error |-> "UnknownCurrency", value |-> NaN]
      ELSE IF RatLE(rates[src], Zero)
        THEN [exc |-> "ValueError", error |-> "InvalidRate", value |-> NaN]
      ELSE IF RatLE(rates[tgt], Zero)
        THEN [exc |-> "ValueError", error |-> "InvalidRate", value |-> NaN]
      ELSE [exc |-> "none", error |-> "none",
            value |-> FloatMul(amt, FloatDiv(rates[src], rates[tgt]))]

perform_conversion_source_rate_ignored(snapshot, src, tgt, amt) ==
  LET rates == snapshot.fields["rates"].map
  IN  IF src \notin DOMAIN rates
        THEN [exc |-> "ValueError", error |-> "UnknownCurrency", value |-> NaN]
      ELSE IF tgt \notin DOMAIN rates
        THEN [exc |-> "ValueError", error |-> "UnknownCurrency", value |-> NaN]
      ELSE IF RatLE(rates[src], Zero)
        THEN [exc |-> "ValueError", error |-> "InvalidRate", value |-> NaN]
      ELSE IF RatLE(rates[tgt], Zero)
        THEN [exc |-> "ValueError", error |-> "InvalidRate", value |-> NaN]
      ELSE [exc |-> "none", error |-> "none", value |-> FloatMul(amt, rates[tgt])]

perform_conversion_zero_rate_passes(snapshot, src, tgt, amt) ==
  LET rates == snapshot.fields["rates"].map
  IN  IF src \notin DOMAIN rates
        THEN [exc |-> "ValueError", error |-> "UnknownCurrency", value |-> NaN]
      ELSE IF tgt \notin DOMAIN rates
        THEN [exc |-> "ValueError", error |-> "UnknownCurrency", value |-> NaN]
      ELSE IF RatLT(rates[src], Zero)
        THEN [exc |-> "ValueError", error |-> "InvalidRate", value |-> NaN]
      ELSE IF RatLT(rates[tgt], Zero)
        THEN [exc |-> "ValueError", error |-> "InvalidRate", value |-> NaN]
      ELSE IF rates[src] = Zero
        THEN [exc |-> "ZeroDivisionError", error |-> "ZeroDivision", value |-> NaN]
      ELSE [exc |-> "none", error |-> "none",
            value |-> FloatMul(amt, FloatDiv(rates[tgt], rates[src]))]

perform_conversion(snapshot, src, tgt, amt) ==
  LET rates == snapshot.fields["rates"].map
  IN  IF src \notin DOMAIN rates
        THEN [exc |-> "ValueError", error |-> "UnknownCurrency", value |-> NaN]
      ELSE IF tgt \notin DOMAIN rates
        THEN [exc |-> "ValueError", error |-> "UnknownCurrency", value |-> NaN]
      ELSE IF RatLE(rates[src], Zero)
        THEN [exc |-> "ValueError", error |-> "InvalidRate", value |-> NaN]
      ELSE IF RatLE(rates[tgt], Zero)
        THEN [exc |-> "ValueError", error |-> "InvalidRate", value |-> NaN]
      ELSE [exc |-> "none", error |-> "none",
            value |-> FloatMul(amt, FloatDiv(rates[tgt], rates[src]))]

\* ------------------------------------------- answers to "one more? (yes/no)"
\* choice.strip().lower() on the answers the model types ("da" and "net"
\* stand for the Cyrillic words of the source)
StripLower(text) ==
  CASE text = " Yes " -> "yes"
    [] text = "N" -> "n"
    [] OTHER -> text

Answers == { "da", " Yes ", "y", "net", "no", "N", "maybe", "" }
YesWords == { "da", "yes", "y" }
NoWords == { "net", "no", "n" }

\* ------------------------------------------------------- the environment
\* when the session runs (seconds since the epoch)
SessionStart == 20000 * SecondsPerDay

\* age in seconds of a cached timestamp: one second in the future, and the
\* first and last second of each whole day up to MaxAgeDays
CacheAges ==
  { -1 } \cup { d * SecondsPerDay + o : d \in 0..MaxAgeDays, o \in {0, SecondsPerDay - 1} }

\* a rate as json.load gives it
Rate(n, d) == Fl(Norm(n, d))

GoodRates == ("USD" :> Rate(1, 1)) @@ ("EUR" :> Rate(9, 10)) @@ ("RUB" :> Rate(90, 1))

RateMaps ==
  { GoodRates,
    ("USD" :> Rate(1, 1)) @@ ("EUR" :> Rate(9, 10)) @@ ("RUB" :> Rate(0, 1)),
    ("USD" :> Rate(1, 1)) @@ ("EUR" :> Rate(-1, 1)) @@ ("XXX" :> Rate(5, 1)),
    ("USD" :> Rate(1, 1)),
    ("XXX" :> Rate(5, 1)),
    EmptyDoc }

\* the fields a document may or may not have
RatesParts ==
  { EmptyDoc, "rates" :> RatesNotDict } \cup { "rates" :> RatesDict(m) : m \in RateMaps }
GoodRatesPart == "rates" :> RatesDict(GoodRates)
DatePart == "date" :> "2025-08-25"
DateFetchedPart == "date_fetched" :> 1
TimestampPart(age) == "timestamp" :> (SessionStart - age)
UsdPart == "base" :> "USD"

\* bodies a source may answer with: every kind of `rates` under either
\* declared base, a missing or lower-case base, a missing date, and bodies
\* that are no mapping
ResponseBodies ==
  { JsonList, JsonScalar }
    \cup { JsonDict(r @@ b @@ DatePart) :
             r \in RatesParts, b \in { UsdPart, "base" :> "EUR" } }
    \cup { JsonDict(GoodRatesPart @@ b @@ DatePart) : b \in { EmptyDoc, "base" :> "usd" } }
    \cup { JsonDict(GoodRatesPart @@ b) : b \in { UsdPart, "base" :> "EUR" } }

\* what one requests.get(...) / raise_for_status() / response.json() does
Responses ==
  { [kind |-> k, body |-> None] :
      k \in { "Timeout", "ConnectionError", "HTTPError", "JSONDecodeError" } }
    \cup { [kind |-> "ok", body |-> b] : b \in ResponseBodies }

\* contents of DB_FILE when the session starts: a good document of every
\* age, every kind of `rates` fresh and old, documents lacking the stamps,
\* the date or the base, and contents that are no mapping
CacheDocs ==
  { JsonList, JsonScalar }
    \cup { JsonDict(GoodRatesPart @@ UsdPart @@ DatePart @@ DateFetchedPart @@ TimestampPart(a)) :
             a \in CacheAges }
    \cup { JsonDict(r @@ UsdPart @@ DatePart @@ DateFetchedPart @@ TimestampPart(a)) :
             r \in RatesParts, a \in { 0, MaxAgeDays * SecondsPerDay } }
    \cup { JsonDict(GoodRatesPart @@ UsdPart @@ DatePart @@ f @@ t) :
             f \in { EmptyDoc, DateFetchedPart }, t \in { EmptyDoc, TimestampPart(0) } }
    \cup { JsonDict(GoodRatesPart @@ b @@ DatePart @@ DateFetchedPart @@ TimestampPart(0)) :
             b \in { EmptyDoc, "base" :> "RUB", "base" :> "" } }
    \cup { JsonDict(GoodRatesPart @@ UsdPart @@ DateFetchedPart @@ TimestampPart(0)) }

NoFile == [exists |-> FALSE, parses |-> FALSE, content |-> None]
CorruptFile == [exists |-> TRUE, parses |-> FALSE, content |-> None]
FileOf(v) == [exists |-> TRUE, parses |-> TRUE, content |-> v]

CacheFiles == { NoFile, CorruptFile } \cup { FileOf(v) : v \in CacheDocs }

\* ------------------------------------------------------------------ state
VARIABLES
  pc,                 \* position in main() / fetch_rates()
  now,                \* time.time() during the session
  is_fresh,           \* what is_data_fresh returned (main never calls it)
  cache_file,         \* DB_FILE on disk
  internet_available, db_data, fresh_data, rates_data,
  api_idx,            \* index in API_URLS of the source fetch_rates is at
  requested,          \* indices of the sources requested so far
  warnings,           \* the sources fetch_rates printed a warning about
  data, expected_base, is_valid, message,   \* locals of fetch_rates
  status_message,     \* [class, date] printed by main
  currencies,         \* the listing offered for selection
  src_code, amount, tgt_code, result,
  conversions,        \* calls of perform_conversion so far
  last_print,         \* the last notice printed to the user
  success, exit_code, \* __main__: main's return value, sys.exit's argument
  fault               \* the exception that ended main, "none" if none

vars ==
  << pc, now, is_fresh, cache_file, internet_available, db_data, fresh_data, rates_data,
     api_idx, requested, warnings, data, expected_base, is_valid, message,
     status_message, currencies, src_code, amount, tgt_code, result,
     conversions, last_print, success, exit_code, fault >>

startup_vars ==
  << now, is_fresh, cache_file, internet_available, db_data, fresh_data, rates_data,
     api_idx, requested, warnings, data, expected_base, is_valid, message,
     status_message, currencies >>

fetch_vars ==
  << api_idx, requested, warnings, data, expected_base, is_valid, message >>

loop_vars == << src_code, amount, tgt_code, result, conversions >>

exit_vars == << success, exit_code, fault >>

NoStatus == [class |-> "none", date |-> 0]
NoExit == -1

Init ==
  /\ pc = "check_internet"
  /\ now = SessionStart
  /\ is_fresh = FALSE
  /\ cache_file \in CacheFiles
  /\ internet_available = FALSE
  /\ db_data = None /\ fresh_data = None /\ rates_data = None
  /\ api_idx = 1 /\ requested = << >> /\ warnings = << >>
  /\ data = None /\ expected_base = NoExpectedBase
  /\ is_valid = FALSE /\ message = "not_called"
  /\ status_message = NoStatus
  /\ currencies = << >>
  /\ src_code = "" /\ amount = NaN /\ tgt_code = "" /\ result = NaN
  /\ conversions = 0
  /\ last_print = "none"
  /\ success = FALSE /\ exit_code = NoExit /\ fault = "none"

\* __main__: main() raised `exc`, or was interrupted; success stays False
Abort(exc) ==
  /\ pc' = "exited"
  /\ fault' = exc
  /\ success' = FALSE
  /\ exit_code' = 1
  /\ last_print' = IF exc = "KeyboardInterrupt" THEN "interrupted" ELSE "unexpected_error"

Return_always_zero(ok) ==
  /\ pc' = "exited"
  /\ fault' = "none"
  /\ success' = ok
  /\ exit_code' = 0

\* main() returned `ok`
Return(ok) ==
  /\ pc' = "exited"
  /\ fault' = "none"
  /\ success' = ok
  /\ exit_code' = IF ok THEN 0 ELSE 1

\* lines 332-333
CheckInternet ==
  /\ pc = "check_internet"
  /\ \E reach \in [1..Len(test_urls) -> BOOLEAN] :
       internet_available' = check_internet(reach)
  /\ pc' = "load_db"
  /\ UNCHANGED << now, is_fresh, cache_file, db_data, fresh_data, rates_data, fetch_vars,
                  status_message, currencies, loop_vars, last_print, exit_vars >>

LoadDb_always_fetches ==
  /\ pc = "load_db"
  /\ db_data' = load_db(cache_file)
  /\ pc' = "fetch_loop"
  /\ UNCHANGED << now, is_fresh, cache_file, internet_available, fresh_data, rates_data,
                  fetch_vars, status_message, currencies, loop_vars,
                  last_print, exit_vars >>

\* lines 335-341: load_db(), then fetch_rates() if the probe succeeded
LoadDb ==
  /\ pc = "load_db"
  /\ db_data' = load_db(cache_file)
  /\ pc' = IF internet_available THEN "fetch_loop" ELSE "select"
  /\ UNCHANGED << now, is_fresh, cache_file, internet_available, fresh_data, rates_data,
                  fetch_vars, status_message, currencies, loop_vars,
                  last_print, exit_vars >>

Last(seq) == seq[Len(seq)]

\* lines 118-132, 144-149: one source is requested, its answer parsed and
\* validated; every exception is caught, logged and the loop goes on
FetchTry ==
  /\ pc = "fetch_loop"
  /\ api_idx <= Len(API_URLS)
  /\ \E response \in Responses :
       LET base == Last(API_URLS[api_idx])
           v == validate_api_response(response.body, base)
           exc == IF response.kind # "ok" THEN response.kind ELSE v.exc
       IN  /\ requested' = Append(requested, api_idx)
           /\ expected_base' = base
           /\ data' = IF response.kind # "ok" THEN data ELSE v.data
           /\ IF exc = "none"
                THEN /\ is_valid' = v.is_valid
                     /\ message' = v.message
                     /\ pc' = "fetch_validated"
                     /\ UNCHANGED << warnings, api_idx, last_print, exit_vars >>
              ELSE IF fetch_rates_except(exc) = "propagates"
                THEN /\ Abort(exc)
                     /\ UNCHANGED << warnings, api_idx, is_valid, message >>
              ELSE /\ warnings' = Append(warnings, api_idx)
                   /\ api_idx' = api_idx + 1
                   /\ pc' = "fetch_loop"
                   /\ UNCHANGED << is_valid, message, last_print, exit_vars >>
  /\ UNCHANGED << now, is_fresh, cache_file, internet_available, db_data, fresh_data,
                  rates_data, status_message, currencies, loop_vars >>

FetchReject_giveup ==
  /\ pc = "fetch_validated"
  /\ ~ is_valid
  /\ warnings' = Append(warnings, api_idx)
  /\ api_idx' = Len(API_URLS) + 1
  /\ pc' = "fetch_loop"
  /\ UNCHANGED << now, is_fresh, cache_file, internet_available, db_data, fresh_data,
                  rates_data, requested, data, expected_base, is_valid, message,
                  status_message, currencies, loop_vars, last_print, exit_vars >>

\* lines 130-132: an invalid document is logged and the next source tried
FetchReject ==
  /\ pc = "fetch_validated"
  /\ ~ is_valid
  /\ warnings' = Append(warnings, api_idx)
  /\ api_idx' = api_idx + 1
  /\ pc' = "fetch_loop"
  /\ UNCHANGED << now, is_fresh, cache_file, internet_available, db_data, fresh_data,
                  rates_data, requested, data, expected_base, is_valid, message,
                  status_message, currencies, loop_vars, last_print, exit_vars >>

\* the document stamped as lines 134-143 do
Stamp(doc, t) ==
  JsonDict(("date_fetched" :> (t \div SecondsPerDay)) @@ ("timestamp" :> t) @@ doc.fields)

\* fetch_rates returns: its locals are gone
FetchLocalsGone ==
  /\ data' = None /\ expected_base' = NoExpectedBase
  /\ is_valid' = FALSE /\ message' = "not_called"

\* lines 134-143 and 341-342: the first valid document is stamped and
\* returned; fresh_data is truthy, so save_db is next
FetchAccept ==
  /\ pc = "fetch_validated"
  /\ is_valid
  /\ fresh_data' = Stamp(data, now)
  /\ FetchLocalsGone
  /\ pc' = "save_db"
  /\ UNCHANGED << now, is_fresh, cache_file, internet_available, db_data, rates_data,
                  api_idx, requested, warnings,
                  status_message, currencies, loop_vars, last_print, exit_vars >>

\* line 151: every source failed, fetch_rates returns None
FetchExhausted ==
  /\ pc = "fetch_loop"
  /\ api_idx > Len(API_URLS)
  /\ fresh_data' = None
  /\ FetchLocalsGone
  /\ pc' = "select"
  /\ UNCHANGED << now, is_fresh, cache_file, internet_available, db_data, rates_data,
                  api_idx, requested, warnings, status_message, currencies,
                  loop_vars, last_print, exit_vars >>

\* lines 343, 177-184: save_db(fresh_data). open() or json.dump may raise
\* OSError, which nothing in main catches; the file is then as it was, or
\* truncated
SaveDb ==
  /\ pc = "save_db"
  /\ \/ /\ cache_file' = FileOf(fresh_data)
        /\ pc' = "select"
        /\ UNCHANGED << last_print, exit_vars >>
     \/ /\ cache_file' \in { cache_file, CorruptFile }
        /\ Abort("OSError")
  /\ UNCHANGED << now, is_fresh, internet_available, db_data, fresh_data, rates_data,
                  fetch_vars, status_message, currencies, loop_vars >>

\* lines 345-357: the data to use, the status line, and the fatal exit when
\* there is no data
SelectData ==
  /\ pc = "select"
  /\ rates_data' = IF Truthy(fresh_data) THEN fresh_data ELSE db_data
  /\ LET st == display_status_message(internet_available, db_data, fresh_data, now)
     IN  IF st.exc # "none"
           THEN /\ Abort(st.exc)
                /\ UNCHANGED status_message
         ELSE /\ status_message' = [class |-> st.class, date |-> st.date]
              /\ IF ~ Truthy(rates_data')
                   THEN /\ Return(FALSE)
                        /\ last_print' = "critical_no_data"
                   ELSE /\ pc' = "list"
                        /\ UNCHANGED << last_print, exit_vars >>
  /\ UNCHANGED << now, is_fresh, cache_file, internet_available, db_data, fresh_data,
                  fetch_vars, currencies, loop_vars >>

\* lines 359-381: the warning about required currencies, the listing, and
\* the fatal exit when it is empty
ListCurrencies ==
  /\ pc = "list"
  /\ currencies' = get_available_currencies(rates_data)
  /\ IF currencies' = << >>
       THEN /\ Return(FALSE)
            /\ last_print' = "critical_no_currencies"
       ELSE /\ pc' = "choose_src"
            /\ last_print' = IF missing_currencies(rates_data) # << >>
                               THEN "missing_currencies" ELSE "listing"
            /\ UNCHANGED exit_vars
  /\ UNCHANGED << now, is_fresh, cache_file, internet_available, db_data, fresh_data,
                  rates_data, fetch_vars, status_message, loop_vars >>

\* lines 386-389
ChooseSrc ==
  /\ pc = "choose_src"
  /\ \E inp \in ChoiceInputs(currencies) :
       LET c == get_user_currency_choice(currencies, inp)
       IN  IF c.ok
             THEN /\ src_code' = c.code
                  /\ pc' = "enter_amount"
                  /\ last_print' = "source_chosen"
             ELSE /\ last_print' = c.print
                  /\ UNCHANGED << src_code, pc >>
  /\ UNCHANGED << startup_vars, amount, tgt_code, result, conversions, exit_vars >>

\* lines 391-393
EnterAmount ==
  /\ pc = "enter_amount"
  /\ \E text \in AmountInputs :
       LET a == get_user_amount(text)
       IN  IF a.ok
             THEN /\ amount' = a.amount
                  /\ pc' = "choose_tgt"
                  /\ last_print' = "amount_entered"
             ELSE /\ last_print' = a.print
                  /\ UNCHANGED << amount, pc >>
  /\ UNCHANGED << startup_vars, src_code, tgt_code, result, conversions, exit_vars >>

ChooseTgt_no_same_check ==
  /\ pc = "choose_tgt"
  /\ \E inp \in ChoiceInputs(currencies) :
       LET c == get_user_currency_choice(currencies, inp)
       IN  IF ~ c.ok
             THEN /\ last_print' = c.print
                  /\ UNCHANGED << tgt_code, pc >>
           ELSE /\ tgt_code' = c.code
                /\ last_print' = "target_chosen"
                /\ pc' = "convert"
  /\ UNCHANGED << startup_vars, src_code, amount, result, conversions, exit_vars >>

\* lines 395-406: the target, and the check that it differs from the source
ChooseTgt ==
  /\ pc = "choose_tgt"
  /\ \E inp \in ChoiceInputs(currencies) :
       LET c == get_user_currency_choice(currencies, inp)
       IN  IF ~ c.ok
             THEN /\ last_print' = c.print
                  /\ UNCHANGED << tgt_code, pc >>
           ELSE /\ tgt_code' = c.code
                /\ IF src_code = c.code
                     THEN /\ last_print' = "same_currency"
                          /\ pc' = "choose_src"
                     ELSE /\ last_print' = "target_chosen"
                          /\ pc' = "convert"
  /\ UNCHANGED << startup_vars, src_code, amount, result, conversions, exit_vars >>

\* lines 408-430: perform_conversion and the report of its result or error
Convert ==
  /\ pc = "convert"
  /\ LET r == perform_conversion(rates_data, src_code, tgt_code, amount)
     IN  IF r.exc = "none"
           THEN /\ result' = r.value
                /\ last_print' = "result"
           ELSE /\ last_print' = "conversion_error"
                /\ UNCHANGED result
  /\ conversions' = conversions + 1
  /\ pc' = "ask_continue"
  /\ UNCHANGED << startup_vars, src_code, amount, tgt_code, exit_vars >>

AskContinue_restarts ==
  /\ pc = "ask_continue"
  /\ \E text \in Answers :
       LET choice == StripLower(text)
       IN  IF choice \in YesWords
             THEN /\ conversions < MaxConversions
                  /\ pc' = "check_internet"
                  /\ last_print' = "again"
                  /\ UNCHANGED exit_vars
           ELSE IF choice \in NoWords
             THEN /\ Return(TRUE)
                  /\ last_print' = "goodbye"
           ELSE /\ last_print' = "please_yes_or_no"
                /\ UNCHANGED << pc, exit_vars >>
  /\ UNCHANGED << startup_vars, loop_vars >>

\* lines 432-441
AskContinue ==
  /\ pc = "ask_continue"
  /\ \E text \in Answers :
       LET choice == StripLower(text)
       IN  IF choice \in YesWords
             THEN /\ conversions < MaxConversions
                  /\ pc' = "choose_src"
                  /\ last_print' = "again"
                  /\ UNCHANGED exit_vars
           ELSE IF choice \in NoWords
             THEN /\ Return(TRUE)
                  /\ last_print' = "goodbye"
           ELSE /\ last_print' = "please_yes_or_no"
                /\ UNCHANGED << pc, exit_vars >>
  /\ UNCHANGED << startup_vars, loop_vars >>

Prompts == { "choose_src", "enter_amount", "choose_tgt", "ask_continue" }

\* lines 444-455: Ctrl-C or the end of input at a prompt ends main() with
\* success still False
InputAborted ==
  /\ pc \in Prompts
  /\ \E exc \in { "KeyboardInterrupt", "EOFError" } : Abort(exc)
  /\ UNCHANGED << startup_vars, loop_vars >>

Next ==
  \/ CheckInternet
  \/ LoadDb
  \/ FetchTry
  \/ FetchReject
  \/ FetchAccept
  \/ FetchExhausted
  \/ SaveDb
  \/ SelectData
  \/ ListCurrencies
  \/ ChooseSrc
  \/ EnterAmount
  \/ ChooseTgt
  \/ Convert
  \/ AskContinue
  \/ InputAborted

Spec == Init /\ [][Next]_vars

\* ------------------------------------ validate_api_response on its own
\* every combination of present and absent fields, and values that are no
\* mapping
ValidatorInputs ==
  { JsonList, JsonScalar }
    \cup { JsonDict(r @@ b @@ d @@ f @@ t) :
             r \in RatesParts,
             b \in { EmptyDoc, UsdPart, "base" :> "EUR", "base" :> "usd", "base" :> "" },
             d \in { EmptyDoc, DatePart },
             f \in { EmptyDoc, DateFetchedPart },
             t \in { EmptyDoc, TimestampPart(0) } }

ExpectedBases == { NoExpectedBase, "", "USD", "EUR", "usd" }

InitValidator ==
  /\ pc = "validate"
  /\ data \in ValidatorInputs
  /\ expected_base \in ExpectedBases
  /\ now = SessionStart
  /\ is_fresh = FALSE
  /\ cache_file = NoFile
  /\ internet_available = FALSE
  /\ db_data = None /\ fresh_data = None /\ rates_data = None
  /\ api_idx = 1 /\ requested = << >> /\ warnings = << >>
  /\ is_valid = FALSE /\ message = "not_called"
  /\ status_message = NoStatus
  /\ currencies = << >>
  /\ src_code = "" /\ amount = NaN /\ tgt_code = "" /\ result = NaN
  /\ conversions = 0
  /\ last_print = "none"
  /\ success = FALSE /\ exit_code = NoExit /\ fault = "none"

\* one call validate_api_response(data, expected_base); fault is the
\* exception it raised, if any
ValidateCall ==
  /\ pc = "validate"
  /\ LET v == validate_api_response(data, expected_base)
     IN  /\ data' = v.data
         /\ is_valid' = v.is_valid
         /\ message' = v.message
         /\ fault' = v.exc
  /\ pc' = "validated"
  /\ UNCHANGED << now, is_fresh, cache_file, internet_available, db_data, fresh_data,
                  rates_data, api_idx, requested, warnings, expected_base,
                  status_message, currencies, loop_vars, last_print, success,
                  exit_code >>

SpecValidator == InitValidator /\ [][ValidateCall]_vars

\* ---------------------------------------- perform_conversion on its own
\* codes handed to perform_conversion: registry codes the rate maps hold or
\* lack, and a code outside the registry
ConverterCodes == { "USD", "EUR", "RUB", "GBP", "XXX" }

\* rates that no float holds exactly
UnevenRates ==
  ("USD" :> Rate(1, 1)) @@ ("EUR" :> Rate(9217, 10000)) @@ ("RUB" :> Rate(9537, 100))
    @@ ("GBP" :> Rate(7712, 10000))

ConverterSnapshots ==
  { JsonDict(("rates" :> RatesDict(m)) @@ UsdPart @@ DatePart @@ DateFetchedPart
               @@ TimestampPart(0)) : m \in RateMaps \cup { UnevenRates } }

ConverterAmounts ==
  { Number(1, 1), Number(7, 1), Number(100, 1), Number(1, 2), Number(-5, 1), NaN }

\* main() stands at line 409 with a cached snapshot in use, the arguments of
\* perform_conversion being any codes and any amount
InitConverter ==
  /\ pc = "convert"
  /\ now = SessionStart
  /\ is_fresh = FALSE
  /\ rates_data \in ConverterSnapshots
  /\ db_data = rates_data
  /\ cache_file = FileOf(rates_data)
  /\ internet_available = FALSE
  /\ fresh_data = None
  /\ api_idx = 1 /\ requested = << >> /\ warnings = << >>
  /\ data = None /\ expected_base = NoExpectedBase
  /\ is_valid = FALSE /\ message = "not_called"
  /\ status_message = [class |-> "offline_fresh_cache", date |-> 1]
  /\ currencies = get_available_currencies(rates_data)
  /\ src_code \in ConverterCodes /\ tgt_code \in ConverterCodes
  /\ amount \in ConverterAmounts
  /\ result = NaN
  /\ conversions = 0
  /\ last_print = "target_chosen"
  /\ success = FALSE /\ exit_code = NoExit /\ fault = "none"

\* the try block of lines 408-430 and the question of lines 432-441
SpecConverter == InitConverter /\ [][Convert \/ AskContinue]_vars

\* ---------------------------------- get_available_currencies on its own
\* the first and the last code of the registry, two in between and a code
\* outside it, each absent from the rates or there with a positive, zero or
\* negative rate
ListingCodes == { "USD", "RUB", "GBP", "KRW", "XXX" }
ListingRates == { Rate(3, 2), Rate(0, 1), Rate(-1, 1) }
ListingRateMaps == UNION { [S -> ListingRates] : S \in SUBSET ListingCodes }

ListingSnapshots ==
  { JsonDict(("rates" :> RatesDict(m)) @@ UsdPart @@ DatePart @@ DateFetchedPart
               @@ TimestampPart(0)) : m \in ListingRateMaps }

\* main() stands at line 359 with a cached snapshot in use
InitListing ==
  /\ pc = "list"
  /\ now = SessionStart
  /\ is_fresh = FALSE
  /\ rates_data \in ListingSnapshots
  /\ db_data = rates_data
  /\ cache_file = FileOf(rates_data)
  /\ internet_available = FALSE
  /\ fresh_data = None
  /\ api_idx = 1 /\ requested = << >> /\ warnings = << >>
  /\ data = None /\ expected_base = NoExpectedBase
  /\ is_valid = FALSE /\ message = "not_called"
  /\ status_message = [class |-> "offline_fresh_cache", date |-> 1]
  /\ currencies = << >>
  /\ src_code = "" /\ amount = NaN /\ tgt_code = "" /\ result = NaN
  /\ conversions = 0
  /\ last_print = "none"
  /\ success = FALSE /\ exit_code = NoExit /\ fault = "none"

SpecListing == InitListing /\ [][ListCurrencies]_vars

\* ------------------------------------------------ is_data_fresh on its own
\* snapshots of every age in CacheAges and without a timestamp, with every
\* kind of `rates`
FreshnessInputs ==
  { JsonDict(r @@ UsdPart @@ DatePart @@ DateFetchedPart @@ t) :
      r \in RatesParts,
      t \in { EmptyDoc } \cup { TimestampPart(a) : a \in CacheAges } }

InitFreshness ==
  /\ pc = "is_data_fresh"
  /\ data \in FreshnessInputs
  /\ now = SessionStart
  /\ is_fresh = FALSE
  /\ cache_file = NoFile
  /\ internet_available = FALSE
  /\ db_data = None /\ fresh_data = None /\ rates_data = None
  /\ api_idx = 1 /\ requested = << >> /\ warnings = << >>
  /\ expected_base = NoExpectedBase
  /\ is_valid = FALSE /\ message = "not_called"
  /\ status_message = NoStatus
  /\ currencies = << >>
  /\ src_code = "" /\ amount = NaN /\ tgt_code = "" /\ result = NaN
  /\ conversions = 0
  /\ last_print = "none"
  /\ success = FALSE /\ exit_code = NoExit /\ fault = "none"

\* one call is_data_fresh(data) with the default max_days
FreshnessCall ==
  /\ pc = "is_data_fresh"
  /\ is_fresh' = is_data_fresh(data, now)
  /\ pc' = "returned"
  /\ UNCHANGED << now, cache_file, internet_available, db_data, fresh_data,
                  rates_data, fetch_vars, status_message, currencies, loop_vars,
                  last_print, exit_vars >>

SpecFreshness == InitFreshness /\ [][FreshnessCall]_vars

\* ================================================================ claims
StartupPcs ==
  { "check_internet", "load_db", "fetch_loop", "fetch_validated", "save_db", "select" }

\* main() got past the status line (line 350)
Selected == status_message # NoStatus

FetchSucceeded == fresh_data # None
CachePresent == db_data # None
CacheUsed == ~ FetchSucceeded /\ CachePresent

\* the cached snapshot is at most n whole days old
CacheAgeAtMost(n) == now - db_data.fields["timestamp"] < (n + 1) * SecondsPerDay

FreshCacheClasses == { "stale_fetch_fresh_cache", "offline_fresh_cache" }
StaleCacheClasses == { "stale_fetch_stale_cache", "offline_stale_cache" }
NoDataClasses == { "no_data", "no_data_offline" }

TableSnapshot ==
  IF FetchSucceeded THEN fresh_data ELSE IF CachePresent THEN db_data ELSE None

TableClass ==
  IF FetchSucceeded THEN "updated"
  ELSE IF CachePresent
    THEN IF CacheAgeAtMost(7)
           THEN (IF internet_available THEN "stale_fetch_fresh_cache" ELSE "offline_fresh_cache")
           ELSE (IF internet_available THEN "stale_fetch_stale_cache" ELSE "offline_stale_cache")
  ELSE IF internet_available THEN "no_data" ELSE "no_data_offline"

\* C1: whenever start-up selection yields its status, the data in use and
\* the status class are those of the decision table: the fetched snapshot and
\* "updated" if the fetch succeeded (which needs the network), else the
\* cached snapshot with a fresh-cache class when its age in whole days is at
\* most 7 and a stale-cache class when it is more than 7, else no snapshot,
\* the "no data" class and a fatal exit.
C1_DecisionTable ==
  Selected =>
    /\ rates_data = TableSnapshot
    /\ status_message.class = TableClass
    /\ (FetchSucceeded => internet_available)
    /\ (status_message.class \in NoDataClasses =>
          pc = "exited" /\ exit_code = 1 /\ rates_data = None)
    /\ (status_message.class \notin NoDataClasses => pc # "exited" \/ rates_data # None)

\* a cache exactly 8 days old is used after a failed fetch and called stale,
\* and a conversion with it succeeded
C1_Witness ==
  /\ status_message.class = "stale_fetch_stale_cache"
  /\ rates_data = db_data
  /\ now - db_data.fields["timestamp"] = 8 * SecondsPerDay
  /\ pc = "ask_continue" /\ last_print = "result"

\* C2: a failed cache write after a successful fetch does not end the
\* session: no session is ever ended by the write's OSError.
C2_WriteFailureDoesNotAbort ==
  ~ (pc = "exited" /\ FetchSucceeded /\ fault = "OSError")

\* the document of the scenario: base as the first source declares it and a
\* rates mapping
DeclaredBase(i) == Last(API_URLS[i])

HasBaseAndRates(d, i) ==
  /\ Has(d, "rates") /\ d.fields["rates"].isdict
  /\ Has(d, "base") /\ d.fields["base"] = DeclaredBase(i)

\* C3 as stated: a document of the first source with the declared base and a
\* rates mapping, whatever else it holds or lacks, passes validation.
C3_AcceptedWithoutDate ==
  (pc = "fetch_validated" /\ api_idx = 1 /\ HasBaseAndRates(data, 1)) => is_valid

C3_AcceptStep ==
  (pc = "fetch_validated" /\ api_idx = 1 /\ HasBaseAndRates(data, 1) /\ Has(data, "date"))
    => /\ pc' = "save_db"
       /\ requested' = << 1 >>
       /\ fresh_data'.fields["base"] = "USD"
       /\ fresh_data'.fields["rates"] = data.fields["rates"]

\* C3, amended: a document of the first source with the declared base, a
\* rates mapping and a `date` field is accepted without a request to the
\* second source; it becomes the data in use, with base USD; and converting
\* 100 USD to RUB with the rates USD 1, EUR 0.9, RUB 90 yields 9000.
C3_FirstSourceAccepted ==
  /\ [][C3_AcceptStep]_vars
  /\ [] ( (FetchSucceeded /\ requested = << 1 >>)
            => /\ warnings = << >>
               /\ fresh_data.fields["base"] = "USD"
               /\ (Selected => rates_data = fresh_data) )
  /\ [] ( ( /\ pc = "ask_continue"
            /\ FetchSucceeded /\ requested = << 1 >>
            /\ rates_data.fields["rates"].map = GoodRates
            /\ src_code = "USD" /\ tgt_code = "RUB" /\ amount = Number(100, 1) )
            => /\ last_print # "conversion_error"
               /\ result = Number(9000, 1) )

C3_Witness ==
  /\ pc = "ask_continue"
  /\ requested = << 1 >> /\ warnings = << >>
  /\ rates_data = fresh_data
  /\ rates_data.fields["base"] = "USD"
  /\ rates_data.fields["rates"].map = GoodRates
  /\ src_code = "USD" /\ tgt_code = "RUB" /\ amount = Number(100, 1)
  /\ result = Number(9000, 1)

\* C4: a cached snapshot without `timestamp` is not fresh, and when it is
\* the snapshot selection falls back on, start-up ends with a stale-cache
\* status, the snapshot in use and no error.
C4_MissingTimestampIsStale ==
  (pc \notin StartupPcs /\ CacheUsed /\ ~ Has(db_data, "timestamp"))
    => /\ ~ is_data_fresh(db_data, now)
       /\ fault = "none"
       /\ status_message.class \in StaleCacheClasses
       /\ rates_data = db_data

\* the invariants of a RateSnapshot (spec section 3)
RatesOf(s) == s.fields["rates"].map

ValidSnapshot(s) ==
  /\ Has(s, "rates") /\ s.fields["rates"].isdict
  /\ DOMAIN RatesOf(s) # {}
  /\ \A c \in DOMAIN RatesOf(s) : RatLT(Zero, RatesOf(s)[c])
  /\ Has(s, "base") /\ s.fields["base"] # ""

\* C5 as stated: the snapshot handed to perform_conversion is valid.
C5_OnlyValidSnapshotsConverted ==
  pc = "convert" => ValidSnapshot(rates_data)

\* C5, amended: the snapshot handed to perform_conversion has a non-empty
\* rates mapping and the `base` and `date` fields, and the rates of the two
\* codes being converted are strictly positive (other rates may be zero or
\* negative, and the base of a cached snapshot may be the empty string).
C5_ConvertedRatesPositive ==
  pc = "convert" =>
    /\ Has(rates_data, "rates") /\ rates_data.fields["rates"].isdict
    /\ DOMAIN RatesOf(rates_data) # {}
    /\ Has(rates_data, "base") /\ Has(rates_data, "date")
    /\ src_code \in DOMAIN RatesOf(rates_data)
    /\ tgt_code \in DOMAIN RatesOf(rates_data)
    /\ RatLT(Zero, RatesOf(rates_data)[src_code])
    /\ RatLT(Zero, RatesOf(rates_data)[tgt_code])

\* a conversion is about to run on a snapshot that holds a non-positive rate
C5_Witness ==
  /\ pc = "convert"
  /\ \E c \in DOMAIN RatesOf(rates_data) : RatLE(RatesOf(rates_data)[c], Zero)

FirstN(n) == [i \in 1..n |-> i]

C6_ReturnStep ==
  (pc = "fetch_validated" /\ is_valid)
    => /\ FetchSucceeded'
       /\ requested' = requested
       /\ \A k \in DOMAIN data.fields \ {"timestamp", "date_fetched"} :
            fresh_data'.fields[k] = data.fields[k]

C6_NoLaterRequest ==
  FetchSucceeded => (requested' = requested /\ fresh_data' = fresh_data)

\* C6: the sources are requested in list order, each at most once; a fetched
\* snapshot is the answer of the source the loop stands at, valid against
\* that source's base and stamped with the current time, every earlier
\* source having failed and no later one having been requested, then or
\* afterwards; and fetch_rates gives None only after every source was
\* requested and failed.
C6_FirstValidSourceWins ==
  /\ [] ( requested = FirstN(Len(requested)) /\ Len(requested) <= Len(API_URLS) )
  /\ [] ( FetchSucceeded =>
            /\ Len(requested) = api_idx
            /\ warnings = FirstN(api_idx - 1)
            /\ fresh_data.fields["base"] = DeclaredBase(api_idx)
            /\ fresh_data.fields["rates"].isdict
            /\ fresh_data.fields["timestamp"] = now )
  /\ [] ( (pc \notin StartupPcs \cup {"exited"} \/ pc = "select")
            /\ internet_available /\ ~ FetchSucceeded
            => /\ requested = FirstN(Len(API_URLS))
               /\ warnings = FirstN(Len(API_URLS)) )
  /\ [][C6_ReturnStep]_vars
  /\ [][C6_NoLaterRequest]_vars

\* the first source failed and the second one's answer was fetched
C6_Witness ==
  /\ FetchSucceeded
  /\ requested = << 1, 2 >> /\ warnings = << 1 >>
  /\ fresh_data.fields["base"] = "EUR"
  /\ pc = "choose_src"

C7_FetchStep ==
  pc \in {"fetch_loop", "fetch_validated"} =>
    /\ fault' = "none" /\ pc' # "exited"
    /\ (pc' = "fetch_loop" =>
          /\ warnings' = Append(warnings, api_idx)
          /\ api_idx' = api_idx + 1)
    /\ (pc' \notin {"fetch_loop", "fetch_validated"} /\ ~ FetchSucceeded' =>
          /\ pc' = "select"
          /\ api_idx > Len(API_URLS)
          /\ Len(warnings) = Len(API_URLS))

\* C7: no step of fetch_rates ends the session or leaves an exception
\* behind: a source that times out, cannot be reached, answers with an error
\* status, with a body that is no JSON, no mapping, or an invalid or
\* wrong-base document gets a warning and the loop moves to the next source,
\* and after the last source fetch_rates returns None.
C7_FailuresAbsorbed ==
  /\ [][C7_FetchStep]_vars
  /\ [] ( fault \notin RequestExceptions \cup {"JSONDecodeError", "TypeError"} )

\* both sources failed, there is no cache: fetch_rates returned None
C7_Witness ==
  /\ pc = "select"
  /\ internet_available /\ ~ FetchSucceeded /\ ~ CachePresent
  /\ warnings = << 1, 2 >>

\* C8 as stated, for the sessions main() ends by returning (no exception
\* and no interrupt is involved) and in its part about the fetch: the exit
\* status is non-zero only when the fetch was not attempted or failed.
C8_NonZeroOnlyWithoutData ==
  (pc = "exited" /\ fault = "none" /\ exit_code # 0) => ~ FetchSucceeded

InputNotices ==
  { "not_numeric", "bad_choice", "amount_not_positive", "amount_too_big",
    "same_currency", "please_yes_or_no", "conversion_error" }

\* C8, amended: the exit status is 0 exactly when main() returns True, which
\* it does only on the user's "no" after a conversion; it is 1 when there
\* is no snapshot to use, when the snapshot in use lists no currency, or when
\* an exception or an interrupt ends main() (the cache write, the status of
\* a cached snapshot without its stamps, Ctrl-C or the end of input at a
\* prompt); rejected inputs and failed conversions never end the session.
C8_ExitStatus ==
  /\ (pc # "exited" => exit_code = NoExit)
  /\ (last_print \in InputNotices => pc \in Prompts)
  /\ (pc = "exited" =>
        /\ exit_code \in {0, 1}
        /\ (exit_code = 0 <=> success)
        /\ (exit_code = 0 =>
              /\ fault = "none" /\ last_print = "goodbye"
              /\ rates_data # None /\ conversions >= 1)
        /\ (exit_code = 1 =>
              \/ fault = "none" /\ rates_data = None /\ last_print = "critical_no_data"
              \/ fault = "none" /\ rates_data # None /\ currencies = << >>
                   /\ last_print = "critical_no_currencies"
              \/ fault = "OSError" /\ FetchSucceeded /\ ~ Selected
              \/ fault = "KeyError" /\ CacheUsed /\ ~ Selected
                   /\ ~ (Has(db_data, "timestamp") /\ Has(db_data, "date_fetched"))
              \/ fault \in {"KeyboardInterrupt", "EOFError"} /\ currencies # << >>))

\* a snapshot was fetched and is in use, it lists no currency, and the exit
\* status is 1
C8_Witness ==
  /\ pc = "exited" /\ exit_code = 1 /\ fault = "none"
  /\ status_message.class = "updated"
  /\ rates_data = fresh_data /\ rates_data # None /\ currencies = << >>

\* C9: the amount handed to perform_conversion is an ordinary number with
\* 0 < amount <= MAX_AMOUNT.
C9_AmountInRange ==
  pc = "convert" =>
    /\ amount.kind = "num"
    /\ RatLT(Zero, amount.val)
    /\ RatLE(amount.val, RatOfInt(MAX_AMOUNT))

FieldReasons == { "missing:rates", "missing:base", "missing:date", "rates_not_dict" }

C10_ArgumentKept == pc = "validate" => data' = data

\* C10: for every mapping handed to it the Validator returns a pair and
\* leaves its argument as it was; the pair is (False, reason naming the
\* field) when `rates` is missing, when `base` is missing or when `rates` is
\* no mapping, and (False, reason) when an expected base (a non-empty
\* string) is given and differs from `base`, letter case included.
C10_ValidatorContract ==
  /\ [][C10_ArgumentKept]_vars
  /\ [] ( (pc = "validated" /\ data.kind = "dict") =>
            /\ fault = "none"
            /\ is_valid \in BOOLEAN
            /\ message \in FieldReasons \cup {"base_mismatch", "valid"}
            /\ (is_valid <=> message = "valid")
            /\ (~ Has(data, "rates") => ~ is_valid /\ message = "missing:rates")
            /\ (~ Has(data, "base") => ~ is_valid /\ message \in {"missing:rates", "missing:base"})
            /\ (Has(data, "rates") /\ ~ data.fields["rates"].isdict =>
                  ~ is_valid /\ message \in FieldReasons)
            /\ (Has(data, "rates") /\ ~ data.fields["rates"].isdict
                  /\ Has(data, "base") /\ Has(data, "date") =>
                  message = "rates_not_dict")
            /\ (BaseGiven(expected_base) /\ Has(data, "base")
                  /\ data.fields["base"] # expected_base => ~ is_valid) )

\* a complete document whose base differs from the expected one only in
\* letter case was rejected for its base
C10_Witness ==
  /\ pc = "validated"
  /\ expected_base = "USD" /\ Has(data, "base") /\ data.fields["base"] = "usd"
  /\ ~ is_valid /\ message = "base_mismatch"

\* what the Converter's preconditions say about the arguments at hand
SourceOrTargetAbsent ==
  src_code \notin DOMAIN RatesOf(rates_data) \/ tgt_code \notin DOMAIN RatesOf(rates_data)

SourceOrTargetRateNotPositive ==
  /\ ~ SourceOrTargetAbsent
  /\ \/ RatLE(RatesOf(rates_data)[src_code], Zero)
     \/ RatLE(RatesOf(rates_data)[tgt_code], Zero)

C11_FailedConversionStep ==
  (pc = "convert" /\ (SourceOrTargetAbsent \/ SourceOrTargetRateNotPositive))
    => /\ last_print' = "conversion_error"
       /\ pc' = "ask_continue"
       /\ exit_code' = NoExit /\ fault' = "none"
       /\ UNCHANGED << rates_data, db_data, cache_file, currencies, result >>

C11_AfterFailureStep ==
  (pc = "ask_continue" /\ last_print = "conversion_error")
    => /\ UNCHANGED << rates_data, db_data, cache_file, currencies >>
       /\ fault' = "none"
       /\ pc' \in {"ask_continue", "choose_src"} \/ (pc' = "exited" /\ last_print' = "goodbye")

\* C11: perform_conversion fails with UnknownCurrency when the source or the
\* target code is absent from the rates and with InvalidRate when both are
\* there and either rate is <= 0, and succeeds otherwise; in main() such a
\* failure is reported, the user is asked whether to continue, the session
\* is not ended by it and the snapshot stays as it was.
C11_ConversionFailuresRecoverable ==
  /\ [] ( pc = "convert" =>
            LET r == perform_conversion(rates_data, src_code, tgt_code, amount)
            IN  /\ (SourceOrTargetAbsent =>
                      r.exc = "ValueError" /\ r.error = "UnknownCurrency")
                /\ (SourceOrTargetRateNotPositive =>
                      r.exc = "ValueError" /\ r.error = "InvalidRate")
                /\ (~ SourceOrTargetAbsent /\ ~ SourceOrTargetRateNotPositive =>
                      r.exc = "none" /\ r.error = "none") )
  /\ [][C11_FailedConversionStep]_vars
  /\ [][C11_AfterFailureStep]_vars
  /\ [] ( last_print = "conversion_error" => pc = "ask_continue" /\ exit_code = NoExit )

\* a conversion from a rate of zero failed, the user answered yes and is
\* back at the choice of a source currency, the snapshot still in use
C11_Witness ==
  /\ pc = "choose_src" /\ last_print = "again"
  /\ conversions = 1 /\ result = NaN /\ amount = Number(100, 1)
  /\ src_code = "RUB" /\ tgt_code = "USD"
  /\ rates_data # None
  /\ "RUB" \in DOMAIN RatesOf(rates_data)
  /\ RatesOf(rates_data)["RUB"] = Zero
  /\ exit_code = NoExit

\* 1 / y for a rational y other than 0
RatInv(y) == Norm(Den(y), Num(y))

\* |x - y| <= ulps * 2^-MantissaBits * |y| for rationals x and y # 0,
\* computed on the quotient x / y
Close(x, y, ulps) ==
  LET q == RatMul(x, RatInv(y))
  IN  Abs(Num(q) - Den(q)) <= (ulps * Den(q)) \div (2 ^ MantissaBits)

\* amount * rB / rA without rounding
ExactConversion(amt, rA, rB) == RatMul(RatMul(amt, rB), RatInv(rA))

\* a conversion of an ordinary amount has just succeeded
Converted ==
  pc = "ask_continue" /\ last_print = "result" /\ amount.kind = "num"

\* C12: a successful conversion of amount from A to B gives amount * rB / rA
\* within two float roundings; converting the result back from B to A
\* succeeds and gives amount within four roundings; and with A = B the
\* Converter neither rejects nor skips the call and gives amount itself.
C12_ConversionFormula ==
  /\ (Converted =>
        /\ result.kind = "num"
        /\ Close(result.val,
                 ExactConversion(amount.val, RatesOf(rates_data)[src_code],
                                 RatesOf(rates_data)[tgt_code]), 4))
  /\ (Converted =>
        LET back == perform_conversion(rates_data, tgt_code, src_code, result)
        IN  /\ back.exc = "none" /\ back.value.kind = "num"
            /\ Close(back.value.val, amount.val, 8))
  /\ ((pc = "convert" /\ src_code = tgt_code /\ src_code \in DOMAIN RatesOf(rates_data)
         /\ RatLT(Zero, RatesOf(rates_data)[src_code]))
        => perform_conversion(rates_data, src_code, tgt_code, amount).exc = "none")
  /\ (Converted /\ src_code = tgt_code => result = amount)

\* 100 USD were converted to EUR at the rate 0.9, which no float holds
\* exactly, and converting the result back gives an amount that is not 100
C12_Witness ==
  /\ Converted
  /\ src_code = "USD" /\ tgt_code = "EUR" /\ amount = Number(100, 1)
  /\ RatesOf(rates_data) = GoodRates
  /\ perform_conversion(rates_data, tgt_code, src_code, result).value # amount

\* the same code as source and as target went through the Converter
C12_SameCodeWitness ==
  /\ Converted /\ src_code = "EUR" /\ tgt_code = "EUR"
  /\ RatesOf(rates_data) = UnevenRates /\ result = amount

\* position of a registry code in CURRENCY_NAMES
RegistryIndex(code) ==
  CHOOSE k \in 1..Len(CURRENCY_NAMES) : CURRENCY_NAMES[k] = code

Registry == { CURRENCY_NAMES[k] : k \in 1..Len(CURRENCY_NAMES) }

\* the listing has been computed from rates_data
ListingDone == pc \in {"choose_src", "exited"}

\* C13: the listing holds exactly the registry codes that are in the rates
\* with a rate > 0, each once and in registry order; no code outside the
\* registry is listed, and the list is a function of the snapshot alone.
C13_ListingIsRegistryFiltered ==
  ListingDone =>
    /\ { currencies[i] : i \in DOMAIN currencies }
         = { c \in Registry : /\ c \in DOMAIN RatesOf(rates_data)
                              /\ RatLT(Zero, RatesOf(rates_data)[c]) }
    /\ \A i, j \in DOMAIN currencies :
         i < j => RegistryIndex(currencies[i]) < RegistryIndex(currencies[j])
    /\ (currencies = << >> <=> pc = "exited")

\* the rates hold RUB at zero and a positive rate for a code outside the
\* registry: neither is listed, and the rest comes in registry order
C13_Witness ==
  /\ pc = "choose_src"
  /\ currencies = << "USD", "GBP", "KRW" >>
  /\ DOMAIN RatesOf(rates_data) = ListingCodes
  /\ RatesOf(rates_data)["RUB"] = Zero
  /\ RatLT(Zero, RatesOf(rates_data)["XXX"])

\* seconds between the snapshot's timestamp and now
AgeSeconds(d) == now - d.fields["timestamp"]

\* C14: is_data_fresh says fresh exactly when the snapshot has a timestamp
\* and its age in whole days is below 7, that is when it is younger than
\* 7 * 86400 seconds: a snapshot exactly 7 * 86400 seconds old is not
\* fresh, one of 7 * 86400 - 1 seconds is.
C14_FreshBelowSevenDays ==
  pc = "returned" =>
    /\ (~ Has(data, "timestamp") => ~ is_fresh)
    /\ (Has(data, "timestamp") =>
          /\ (is_fresh <=> AgeSeconds(data) < 7 * SecondsPerDay)
          /\ (AgeSeconds(data) = 7 * SecondsPerDay => ~ is_fresh)
          /\ (AgeSeconds(data) = 7 * SecondsPerDay - 1 => is_fresh))

\* a snapshot exactly 7 * 86400 seconds old was judged not fresh
C14_Witness ==
  /\ pc = "returned"
  /\ Has(data, "timestamp") /\ AgeSeconds(data) = 7 * SecondsPerDay
  /\ ~ is_fresh

\* a snapshot of 7 * 86400 - 1 seconds was judged fresh
C14_LastFreshSecondWitness ==
  /\ pc = "returned"
  /\ Has(data, "timestamp") /\ AgeSeconds(data) = 7 * SecondsPerDay - 1
  /\ is_fresh

\* DB_FILE holds a document that passes the schema check
SchemaValidFile(file) ==
  /\ file.exists /\ file.parses
  /\ Has(file.content, "rates") /\ file.content.fields["rates"].isdict
  /\ Has(file.content, "base") /\ Has(file.content, "date")

C15_LoadStep ==
  pc = "load_db" =>
    /\ fault' = "none" /\ pc' # "exited"
    /\ cache_file' = cache_file
    /\ db_data' = IF SchemaValidFile(cache_file) THEN cache_file.content ELSE None

\* C15: load_db raises nothing and leaves the file alone; it returns None
\* when there is no file, when the file cannot be read or parsed and when
\* its content fails the schema check, and otherwise the content as it is,
\* whatever its base, with its timestamp.
C15_LoadNeverRaises ==
  /\ [][C15_LoadStep]_vars
  /\ [] ( (pc \notin {"check_internet", "load_db"} /\ CachePresent)
            => /\ Has(db_data, "rates") /\ Has(db_data, "base") /\ Has(db_data, "date") )

\* a cached snapshot with base RUB, a base no source declares, was loaded
\* with its timestamp
C15_Witness ==
  /\ pc = "select" /\ ~ internet_available
  /\ CachePresent
  /\ db_data = cache_file.content
  /\ db_data.fields["base"] = "RUB"
  /\ Has(db_data, "timestamp") /\ db_data.fields["timestamp"] = now

FetchPcs == { "fetch_loop", "fetch_validated", "save_db" }

C16_CacheStep ==
  cache_file' # cache_file =>
    /\ pc = "save_db" /\ internet_available /\ FetchSucceeded
    /\ cache_file' \in { FileOf(fresh_data), CorruptFile }

C16_NoFetchNoChange == ~ FetchSucceeded' => cache_file' = cache_file

\* C16: DB_FILE changes only in save_db after a successful fetch; once
\* start-up is over after a successful fetch the file holds the fetched
\* snapshot and nothing else; when the probe reached no host fetch_rates is
\* not called and no source is requested; and while no fetch has succeeded
\* the file stays as it was.
C16_CacheWrittenOnlyByFetch ==
  /\ [][C16_CacheStep]_vars
  /\ [][C16_NoFetchNoChange]_vars
  /\ [] ( (Selected /\ FetchSucceeded) => cache_file = FileOf(fresh_data) )
  /\ [] ( (pc # "check_internet" /\ ~ internet_available)
            => /\ pc \notin FetchPcs
               /\ requested = << >>
               /\ ~ FetchSucceeded )

\* a cache with other rates was loaded, a fetch succeeded, and the file now
\* holds the fetched snapshot
C16_Witness ==
  /\ pc = "choose_src"
  /\ FetchSucceeded /\ CachePresent
  /\ RatesOf(db_data) # RatesOf(fresh_data)
  /\ cache_file = FileOf(fresh_data)
  /\ cache_file.content # db_data

\* positions inside the conversion loop
LoopPcs == { "choose_src", "enter_amount", "choose_tgt", "convert", "ask_continue" }

C17_LoopStep ==
  pc \in LoopPcs =>
    /\ pc' \in LoopPcs \cup {"exited"}
    /\ UNCHANGED << rates_data, currencies, cache_file, db_data, fresh_data,
                    internet_available, requested, warnings, status_message >>

\* C17: inside the conversion loop nothing probes, fetches, loads or writes:
\* the snapshot in use, the listing, the file, the loaded and the fetched
\* document and the requests made stay as start-up left them, whatever the
\* inputs, results and answers; the snapshot is the one selection chose, the
\* listing is the listing of that snapshot, and every result is computed
\* from it.
C17_SnapshotFixedInLoop ==
  /\ [][C17_LoopStep]_vars
  /\ [] ( pc \in LoopPcs =>
            /\ rates_data = TableSnapshot
            /\ currencies = get_available_currencies(rates_data) )
  /\ [] ( (pc = "ask_continue" /\ last_print = "result") =>
            result = perform_conversion(rates_data, src_code, tgt_code, amount).value )

\* the second conversion of a session has given its result, from the cached
\* snapshot that start-up selected
C17_Witness ==
  /\ pc = "ask_continue" /\ last_print = "result"
  /\ conversions = 2
  /\ CacheUsed /\ rates_data = db_data
  /\ requested = << 1, 2 >>

\* C18: whenever start-up selected the cached snapshot and reported its
\* status, the status is a fresh-cache class exactly when
\* is_data_fresh(cached) is true and a stale-cache class exactly when it is
\* false.
C18_StatusAgreesWithFreshness ==
  (Selected /\ CacheUsed) =>
    /\ (status_message.class \in FreshCacheClasses <=> is_data_fresh(db_data, now))
    /\ (status_message.class \in StaleCacheClasses <=> ~ is_data_fresh(db_data, now))

\* the codes of the listing
ListedCodes == { currencies[i] : i \in DOMAIN currencies }

C19_TargetStep ==
  pc = "choose_tgt" =>
    /\ (pc' = "convert" => tgt_code' # src_code /\ tgt_code' \in ListedCodes)
    /\ (pc' = "choose_src" =>
          /\ tgt_code' = src_code
          /\ last_print' = "same_currency"
          /\ UNCHANGED << result, conversions >>)

\* C19: perform_conversion is called only with two different codes of the
\* listing of the snapshot in use, so it never fails in a session; a target
\* equal to the source is answered with a notice and the choice of a source
\* currency, without a call of perform_conversion and without a result.
C19_ConverterCalledOnListedPairs ==
  /\ [] ( pc = "convert" =>
            /\ src_code # tgt_code
            /\ src_code \in ListedCodes /\ tgt_code \in ListedCodes
            /\ currencies = get_available_currencies(rates_data)
            /\ perform_conversion(rates_data, src_code, tgt_code, amount).exc = "none" )
  /\ [] ( last_print # "conversion_error" )
  /\ [] ( last_print = "same_currency" => pc = "choose_src" /\ src_code = tgt_code )
  /\ [][C19_TargetStep]_vars

\* after one conversion the user chose the same code twice and is back at
\* the choice of a source currency, the count of conversions still 1
C19_Witness ==
  /\ pc = "choose_src" /\ last_print = "same_currency"
  /\ src_code = tgt_code /\ src_code = "EUR"
  /\ conversions = 1 /\ result.kind = "num"

====
